---- MODULE Spec2Model ----
(***************************************************************************)
(* A model of arecordmidi.c: recording one ALSA sequencer port to a        *)
(* single-track Standard MIDI File.                                        *)
(*                                                                         *)
(* Bytes are integers 0..255.  A 32-bit quantity (snd_seq_tick_time_t, an  *)
(* unsigned int; int) is held as the integer in -2^31 .. 2^31-1 that has   *)
(* the same bit pattern, so an unsigned value of 2^31 or more reads as its *)
(* two's complement; Sub32 is subtraction modulo 2^32 on that range.       *)
(***************************************************************************)
EXTENDS Integers, Sequences, FiniteSets, TLC

(***************************************************************************)
(* Bounds of the model.                                                    *)
(***************************************************************************)
\* events read by the recording loop in one run
MaxEvents == 3

(***************************************************************************)
(* Program constants.                                                      *)
(***************************************************************************)
BUFFER_SIZE == 4088
MIDI_CMD_NOTE_OFF == 128
MIDI_CMD_NOTE_ON == 144
MIDI_CMD_NOTE_PRESSURE == 160
MIDI_CMD_CONTROL == 176
MIDI_CMD_PGM_CHANGE == 192
MIDI_CMD_CHANNEL_PRESSURE == 208
MIDI_CMD_BENDER == 224
MIDI_CTL_MSB_DATA_ENTRY == 6
MIDI_CTL_LSB_DATA_ENTRY == 38
MIDI_CTL_NONREG_PARM_NUM_LSB == 98
MIDI_CTL_NONREG_PARM_NUM_MSB == 99
MIDI_CTL_REGIST_PARM_NUM_LSB == 100
MIDI_CTL_REGIST_PARM_NUM_MSB == 101

(***************************************************************************)
(* 32-bit arithmetic.                                                      *)
(***************************************************************************)
\* a - b modulo 2^32, as unsigned and as int alike (same bit pattern)
Sub32(a, b) ==
    LET lo == (a % 65536) - (b % 65536)
        borrow == IF lo < 0 THEN 1 ELSE 0
        hi == (a \div 65536) - (b \div 65536) - borrow
        hiw == ((hi + 32768) % 65536) - 32768
    IN  hiw * 65536 + (lo % 65536)

\* (unsigned char) c
Byte(c) == c % 256

(***************************************************************************)
(* struct smf_track: bufs is the linked list of buffers from first_buf on, *)
(* each held as the bytes stored into it so far (the rest of a buffer is   *)
(* zero: first_buf is static, the others come from calloc); cur_buf is the *)
(* index of the current buffer in that list.                               *)
(***************************************************************************)
EmptyTrack ==
    [size |-> 0, cur_buf_size |-> 0, cur_buf |-> 1, bufs |-> << <<>> >>,
     last_tick |-> 0, last_command |-> 0]

\* buf[i] = byte, i counted from 0
BufPut(b, i, byte) ==
    IF i = Len(b) THEN Append(b, byte)
    ELSE IF i > Len(b) THEN b \o [k \in 1..(i - Len(b)) |-> 0] \o << byte >>
    ELSE SubSeq(b, 1, i) \o << byte >> \o SubSeq(b, i + 2, Len(b))

\* the first n bytes of a buffer
BufRead(b, n) ==
    IF n <= Len(b) THEN SubSeq(b, 1, n) ELSE b \o [k \in 1..(n - Len(b)) |-> 0]

\* add_byte that counts a byte only when the current buffer had room for it
add_byte_CountsOnlyIfRoom(t, byte) ==
    LET full == t.cur_buf_size >= BUFFER_SIZE
        t1 == IF full
              THEN [t EXCEPT !.bufs = Append(@, <<>>),
                             !.cur_buf = Len(t.bufs) + 1,
                             !.cur_buf_size = 0]
              ELSE t
    IN  [t1 EXCEPT !.bufs[t1.cur_buf] = BufPut(@, t1.cur_buf_size, Byte(byte)),
                   !.cur_buf_size = @ + 1,
                   !.size = IF full THEN @ ELSE @ + 1]

add_byte(t, byte) ==
    LET t1 == IF t.cur_buf_size >= BUFFER_SIZE
              THEN [t EXCEPT !.bufs = Append(@, <<>>),
                             !.cur_buf = Len(t.bufs) + 1,
                             !.cur_buf_size = 0]
              ELSE t
    IN  [t1 EXCEPT !.bufs[t1.cur_buf] = BufPut(@, t1.cur_buf_size, Byte(byte)),
                   !.cur_buf_size = @ + 1,
                   !.size = @ + 1]

\* add_byte for bytes[lo], ..., bytes[hi], in that order
RECURSIVE AddRange(_, _, _, _)
AddRange(t, bytes, lo, hi) ==
    IF lo > hi THEN t
    ELSE IF lo = hi THEN add_byte(t, bytes[lo])
    ELSE LET mid == (lo + hi) \div 2
             left == AddRange(t, bytes, lo, mid)
         IN  \* the test makes TLC evaluate the first half before the second
             IF left.size >= 0 THEN AddRange(left, bytes, mid + 1, hi) ELSE left

\* add_byte for each byte of a sequence, in order
add_bytes(t, bytes) == AddRange(t, bytes, 1, Len(bytes))

\* var_value that compares with > where the code has >=
var_value_StrictBounds(t, v) ==
    LET t1 == IF v > 268435456
              THEN add_byte(t, 128 + ((v \div 268435456) % 4)) ELSE t
        t2 == IF v > 2097152
              THEN add_byte(t1, 128 + ((v \div 2097152) % 128)) ELSE t1
        t3 == IF v > 16384
              THEN add_byte(t2, 128 + ((v \div 16384) % 128)) ELSE t2
        t4 == IF v > 128
              THEN add_byte(t3, 128 + ((v \div 128) % 128)) ELSE t3
    IN  add_byte(t4, v % 128)

var_value(t, v) ==
    LET t1 == IF v >= 268435456
              THEN add_byte(t, 128 + ((v \div 268435456) % 4)) ELSE t
        t2 == IF v >= 2097152
              THEN add_byte(t1, 128 + ((v \div 2097152) % 128)) ELSE t1
        t3 == IF v >= 16384
              THEN add_byte(t2, 128 + ((v \div 16384) % 128)) ELSE t2
        t4 == IF v >= 128
              THEN add_byte(t3, 128 + ((v \div 128) % 128)) ELSE t3
    IN  add_byte(t4, v % 128)

\* delta_time without the test for a negative difference
delta_time_NoClamp(t, ev, ts) ==
    LET tick == Sub32(ev.tick, ts)
        diff == Sub32(tick, t.last_tick)
    IN  [var_value(t, diff) EXCEPT !.last_tick = tick]

delta_time(t, ev, ts) ==
    LET tick == Sub32(ev.tick, ts)
        diff == Sub32(tick, t.last_tick)
    IN  [var_value(t, IF diff < 0 THEN 0 ELSE diff) EXCEPT !.last_tick = tick]

\* command that keeps the running status over a status byte of F0 or more
command_SysExKeepsRunning(t, cmd) ==
    [(IF cmd # t.last_command THEN add_byte(t, cmd) ELSE t)
        EXCEPT !.last_command = IF cmd < 240 THEN cmd ELSE @]

\* command that compares the kind of the status byte and not its channel
command_IgnoresChannel(t, cmd) ==
    [(IF (cmd \div 16) # (t.last_command \div 16) THEN add_byte(t, cmd) ELSE t)
        EXCEPT !.last_command = IF cmd < 240 THEN cmd ELSE 0]

command(t, cmd) ==
    [(IF cmd # t.last_command THEN add_byte(t, cmd) ELSE t)
        EXCEPT !.last_command = IF cmd < 240 THEN cmd ELSE 0]

\* cmd | (channel & 0xf), cmd a multiple of 16
StatusOf(cmd, channel) == cmd + (channel % 16)

\* delta time, status byte (or running status), data bytes
ChannelMessage(t, ev, ts, cmd, data) ==
    add_bytes(command(delta_time(t, ev, ts), StatusOf(cmd, ev.channel)), data)

\* delta time and data bytes of a message that relies on running status
RunningMessage(t, ev, ts, data) == add_bytes(delta_time(t, ev, ts), data)

\* the case of CONTROL14 without the test of the controller number
Control14_AlwaysTwo(t, ev, ts) ==
    RunningMessage(ChannelMessage(t, ev, ts, MIDI_CMD_CONTROL,
                                  << ev.param % 128, (ev.value \div 128) % 128 >>),
                   ev, ts, << (ev.param % 128) + 32, ev.value % 128 >>)

\* case SND_SEQ_EVENT_CONTROL14 (lines 343-355)
Control14(t, ev, ts) ==
    LET t1 == ChannelMessage(t, ev, ts, MIDI_CMD_CONTROL,
                             << ev.param % 128, (ev.value \div 128) % 128 >>)
    IN  IF (ev.param % 128) < 32
        THEN RunningMessage(t1, ev, ts,
                            << (ev.param % 128) + 32, ev.value % 128 >>)
        ELSE t1

\* the parameter cases with the two data entry messages in the other order
ParamMessages_DataLsbFirst(t, ev, ts, lsb, msb) ==
    LET t1 == ChannelMessage(t, ev, ts, MIDI_CMD_CONTROL, << lsb, ev.param % 128 >>)
        t2 == RunningMessage(t1, ev, ts, << msb, (ev.param \div 128) % 128 >>)
        t3 == RunningMessage(t2, ev, ts, << MIDI_CTL_LSB_DATA_ENTRY, ev.value % 128 >>)
    IN  RunningMessage(t3, ev, ts,
                       << MIDI_CTL_MSB_DATA_ENTRY, (ev.value \div 128) % 128 >>)

\* cases SND_SEQ_EVENT_NONREGPARAM and SND_SEQ_EVENT_REGPARAM (lines 356-385),
\* lsb and msb the controllers of the parameter number
ParamMessages(t, ev, ts, lsb, msb) ==
    LET t1 == ChannelMessage(t, ev, ts, MIDI_CMD_CONTROL, << lsb, ev.param % 128 >>)
        t2 == RunningMessage(t1, ev, ts, << msb, (ev.param \div 128) % 128 >>)
        t3 == RunningMessage(t2, ev, ts,
                  << MIDI_CTL_MSB_DATA_ENTRY, (ev.value \div 128) % 128 >>)
    IN  RunningMessage(t3, ev, ts, << MIDI_CTL_LSB_DATA_ENTRY, ev.value % 128 >>)

\* the case of SYSEX with a length that counts the status byte too
SysEx_LengthCountsStatus(t, ev, ts) ==
    IF Len(ev.ext) = 0 THEN t
    ELSE LET t1 == delta_time(t, ev, ts)
             t2 == IF ev.ext[1] = 240 THEN command(t1, 240)
                                      ELSE command(t1, 247)
         IN  add_bytes(var_value(t2, Len(ev.ext) + 1), ev.ext)

\* the case of SYSEX where an empty message ends running status
SysEx_EmptyResetsStatus(t, ev, ts) ==
    IF Len(ev.ext) = 0 THEN [t EXCEPT !.last_command = 0]
    ELSE LET t1 == delta_time(t, ev, ts)
             t2 == IF ev.ext[1] = 240 THEN command(t1, 240)
                                      ELSE command(t1, 247)
         IN  add_bytes(var_value(t2, Len(ev.ext)), ev.ext)

\* case SND_SEQ_EVENT_SYSEX (lines 398-409)
SysEx(t, ev, ts) ==
    IF Len(ev.ext) = 0 THEN t
    ELSE LET t1 == delta_time(t, ev, ts)
             t2 == IF ev.ext[1] = 240 THEN command(t1, 240)
                                      ELSE command(t1, 247)
         IN  add_bytes(var_value(t2, Len(ev.ext)), ev.ext)

\* the switch of record_event
Translate(t, ev, ts) ==
    CASE ev.type = "NOTEON" ->
            ChannelMessage(t, ev, ts, MIDI_CMD_NOTE_ON,
                           << ev.note % 128, ev.velocity % 128 >>)
      [] ev.type = "NOTEOFF" ->
            ChannelMessage(t, ev, ts, MIDI_CMD_NOTE_OFF,
                           << ev.note % 128, ev.velocity % 128 >>)
      [] ev.type = "KEYPRESS" ->
            ChannelMessage(t, ev, ts, MIDI_CMD_NOTE_PRESSURE,
                           << ev.note % 128, ev.velocity % 128 >>)
      [] ev.type = "CONTROLLER" ->
            ChannelMessage(t, ev, ts, MIDI_CMD_CONTROL,
                           << ev.param % 128, ev.value % 128 >>)
      [] ev.type = "PGMCHANGE" ->
            ChannelMessage(t, ev, ts, MIDI_CMD_PGM_CHANGE, << ev.value % 128 >>)
      [] ev.type = "CHANPRESS" ->
            ChannelMessage(t, ev, ts, MIDI_CMD_CHANNEL_PRESSURE, << ev.value % 128 >>)
      [] ev.type = "PITCHBEND" ->
            ChannelMessage(t, ev, ts, MIDI_CMD_BENDER,
                           << (ev.value + 8192) % 128,
                              ((ev.value + 8192) \div 128) % 128 >>)
      [] ev.type = "CONTROL14" -> Control14(t, ev, ts)
      [] ev.type = "NONREGPARAM" ->
            ParamMessages(t, ev, ts, MIDI_CTL_NONREG_PARM_NUM_LSB,
                          MIDI_CTL_NONREG_PARM_NUM_MSB)
      [] ev.type = "REGPARAM" ->
            ParamMessages(t, ev, ts, MIDI_CTL_REGIST_PARM_NUM_LSB,
                          MIDI_CTL_REGIST_PARM_NUM_MSB)
      [] ev.type = "SYSEX" -> SysEx(t, ev, ts)
      [] OTHER -> t

\* record_event: the new track and time origin
record_event(t, ts, ev) ==
    IF ~ev.queue_ok
    THEN [track |-> t, t_start |-> ts]
    ELSE LET ts1 == IF ts = 0 THEN ev.tick ELSE ts
         IN  IF ev.dest_port # 0
             THEN [track |-> t, t_start |-> ts1]
             ELSE [track |-> Translate(t, ev, ts1), t_start |-> ts1]

(***************************************************************************)
(* The output FILE: its bytes, the position of the next write, whether the *)
(* device still accepts writes and seeks (ok), and whether a write or a    *)
(* seek has failed (err).  A failed call changes nothing else and returns  *)
(* an error that the caller is free to look at.                            *)
(***************************************************************************)
NewFile == [bytes |-> <<>>, pos |-> 0, ok |-> TRUE, err |-> FALSE]

fputc(f, c) ==
    IF f.ok
    THEN [f EXCEPT !.bytes = BufPut(@, f.pos, Byte(c)), !.pos = @ + 1]
    ELSE [f EXCEPT !.err = TRUE]

\* fputc for bytes[lo], ..., bytes[hi], in that order
RECURSIVE PutRange(_, _, _, _)
PutRange(f, bytes, lo, hi) ==
    IF lo > hi THEN f
    ELSE IF lo = hi THEN fputc(f, bytes[lo])
    ELSE LET mid == (lo + hi) \div 2
             left == PutRange(f, bytes, lo, mid)
         IN  \* the test makes TLC evaluate the first half before the second
             IF left.pos >= 0 THEN PutRange(left, bytes, mid + 1, hi) ELSE left

fwrite(f, bytes) == PutRange(f, bytes, 1, Len(bytes))

ftell(f) == f.pos

fseek(f, offset) ==
    IF f.ok THEN [f EXCEPT !.pos = offset] ELSE [f EXCEPT !.err = TRUE]

\* the four bytes of a big-endian 32-bit length
BigEndian32(n) ==
    << (n \div 16777216) % 256, (n \div 65536) % 256, (n \div 256) % 256, n % 256 >>

\* the time division with the frame rate as it is given
TimeDivision_FramesAsIs(o) ==
    IF o.smpte_timing THEN o.ticks + o.frames * 256 ELSE o.ticks

\* the time division of the header (lines 428-430); ticks <= 0xff with SMPTE
TimeDivision(o) ==
    IF o.smpte_timing THEN o.ticks + (256 - o.frames) * 256 ELSE o.ticks

\* write_header that takes the offset after writing the length
write_header_OffsetAfterLength(f, t, o) ==
    LET f1 == fwrite(f, << 77, 84, 104, 100, 0, 0, 0, 6 >>)
        f2 == fwrite(f1, << 0, 0, 0, 1 >>)
        f3 == fputc(fputc(f2, TimeDivision(o) \div 256), TimeDivision(o) % 256)
        f4 == fwrite(f3, << 77, 84, 114, 107 >>)
        f5 == fwrite(f4, BigEndian32(t.size))
    IN  [file |-> f5, size_offset |-> ftell(f5)]

\* write_header: the file and size_offset
write_header(f, t, o) ==
    LET f1 == fwrite(f, << 77, 84, 104, 100, 0, 0, 0, 6 >>)
        f2 == fwrite(f1, << 0, 0, 0, 1 >>)
        f3 == fputc(fputc(f2, TimeDivision(o) \div 256), TimeDivision(o) % 256)
        f4 == fwrite(f3, << 77, 84, 114, 107 >>)
    IN  [file |-> fwrite(f4, BigEndian32(t.size)), size_offset |-> ftell(f4)]

\* var_value_direct that counts the last byte only
var_value_direct_CountsLastOnly(f, v) ==
    LET f1 == IF v >= 268435456 THEN fputc(f, 128 + ((v \div 268435456) % 4)) ELSE f
        f2 == IF v >= 2097152 THEN fputc(f1, 128 + ((v \div 2097152) % 128)) ELSE f1
        f3 == IF v >= 16384 THEN fputc(f2, 128 + ((v \div 16384) % 128)) ELSE f2
        f4 == IF v >= 128 THEN fputc(f3, 128 + ((v \div 128) % 128)) ELSE f3
    IN  [file |-> fputc(f4, v % 128), n |-> 1]

\* var_value_direct: the file and the number of bytes written
var_value_direct(f, v) ==
    LET r1 == IF v >= 268435456
              THEN [file |-> fputc(f, 128 + ((v \div 268435456) % 4)), n |-> 1]
              ELSE [file |-> f, n |-> 0]
        r2 == IF v >= 2097152
              THEN [file |-> fputc(r1.file, 128 + ((v \div 2097152) % 128)),
                    n |-> r1.n + 1]
              ELSE r1
        r3 == IF v >= 16384
              THEN [file |-> fputc(r2.file, 128 + ((v \div 16384) % 128)),
                    n |-> r2.n + 1]
              ELSE r2
        r4 == IF v >= 128
              THEN [file |-> fputc(r3.file, 128 + ((v \div 128) % 128)),
                    n |-> r3.n + 1]
              ELSE r3
    IN  [file |-> fputc(r4.file, v % 128), n |-> r4.n + 1]

\* the loop of flush_buffer writing every buffer whole, the current one too
RECURSIVE FlushFrom_WholeChunks(_, _, _)
FlushFrom_WholeChunks(f, t, k) ==
    IF k > Len(t.bufs) THEN f
    ELSE FlushFrom_WholeChunks(fwrite(f, BufRead(t.bufs[k], BUFFER_SIZE)), t, k + 1)

\* the loop of flush_buffer, from buffer k of the list on
RECURSIVE FlushFrom(_, _, _)
FlushFrom(f, t, k) ==
    IF k > Len(t.bufs) THEN f
    ELSE FlushFrom(fwrite(f, BufRead(t.bufs[k],
                                     IF k = t.cur_buf THEN t.cur_buf_size
                                                      ELSE BUFFER_SIZE)),
                   t, k + 1)

flush_buffer(f, t) == FlushFrom(f, t, 1)

\* update_length that does not go back to the saved position
update_length_NoSeekBack(f, t, offset, extra) ==
    LET size == t.size + extra
    IN  [file |-> fwrite(fseek(f, offset), BigEndian32(size)),
         track |-> [t EXCEPT !.size = size]]

\* update_length: the file and the track
update_length(f, t, offset, extra) ==
    LET saved_pos == ftell(f)
        size == t.size + extra
        f1 == fwrite(fseek(f, offset), BigEndian32(size))
    IN  [file |-> fseek(f1, saved_pos), track |-> [t EXCEPT !.size = size]]

\* write_track_end that does not count the last byte it writes
write_track_end_MiscountsEnd(f, t, tick) ==
    LET d == var_value_direct(f, Sub32(tick, t.last_tick))
        f1 == fputc(fputc(d.file, 255), 47)
        e == var_value_direct(f1, 0)
    IN  [file |-> e.file, extra_size |-> d.n + 2]

\* write_track_end, tick the queue's tick time: the file and extra_size
write_track_end(f, t, tick) ==
    LET d == var_value_direct(f, Sub32(tick, t.last_tick))
        f1 == fputc(fputc(d.file, 255), 47)
        e == var_value_direct(f1, 0)
    IN  [file |-> e.file, extra_size |-> d.n + 2 + e.n]

(***************************************************************************)
(* The program state.                                                      *)
(***************************************************************************)
VARIABLES
    pc,           \* position in main
    opt,          \* smpte_timing, beats, frames, ticks, timeout, ts_num, ts_dd
    track,        \* struct smf_track track
    t_start,      \* time origin
    file,         \* the output FILE
    size_offset,  \* where the track length is stored
    stop,         \* set by sighandler
    no_events,    \* events read so far
    extra_size,   \* result of write_track_end
    exit_status,  \* -1 while running, then the status the process ends with
    evlog,        \* history: every event read, with the span of the body it wrote
    oplog,        \* history: the output steps taken, in order
    vlq_in,       \* the quantity given to the VLQ writers (VLQ specification only)
    end_tick      \* history: the queue's tick time read by write_track_end

vars == << pc, opt, track, t_start, file, size_offset, stop, no_events,
           extra_size, exit_status, evlog, oplog, vlq_in, end_tick >>

(***************************************************************************)
(* Command lines: the options as main leaves them after line 691.          *)
(***************************************************************************)
\* lines 688-691
Defaults(o) ==
    LET t1 == IF o.ticks = 0 THEN (IF o.smpte_timing THEN 40 ELSE 384) ELSE o.ticks
    IN  [o EXCEPT !.ticks = IF o.smpte_timing /\ t1 > 255 THEN 255 ELSE t1]

\* lines 141-142
RECURSIVE Log2(_)
Log2(x) == IF x > 1 THEN 1 + Log2(x \div 2) ELSE 0

Options ==
    { Defaults(o) : o \in
        { \* no option but the port and the file
          [smpte_timing |-> FALSE, beats |-> 120, frames |-> 0, ticks |-> 0,
           timeout |-> 0, ts_num |-> 4, ts_dd |-> Log2(4)],
          \* -f 25 -T 500
          [smpte_timing |-> TRUE, beats |-> 120, frames |-> 25, ticks |-> 0,
           timeout |-> 500, ts_num |-> 4, ts_dd |-> Log2(4)],
          \* -b 4 -t 32767 -i 6:8 -T 500
          [smpte_timing |-> FALSE, beats |-> 4, frames |-> 0, ticks |-> 32767,
           timeout |-> 500, ts_num |-> 6, ts_dd |-> Log2(8)] } }

(***************************************************************************)
(* Events: queue_ok is ev->queue == queue && snd_seq_ev_is_tick(ev).       *)
(***************************************************************************)
Ev(type, tick, channel, a, b, ext) ==
    [type |-> type, queue_ok |-> TRUE, dest_port |-> 0, tick |-> tick,
     channel |-> channel, note |-> a, velocity |-> b, param |-> a, value |-> b,
     ext |-> ext]

Events ==
    { Ev("NOTEON", 0, 0, 60, 100, <<>>),
      Ev("NOTEON", 1, 0, 60, 100, <<>>),
      Ev("NOTEON", 384, 0, 60, 100, <<>>),
      Ev("NOTEON", 384, 1, 62, 100, <<>>),
      Ev("NOTEOFF", 384, 0, 60, 0, <<>>),
      Ev("NOTEOFF", 1, 0, 60, 0, <<>>),
      Ev("CONTROLLER", 500, 0, 7, 100, <<>>),
      Ev("CONTROL14", 384, 0, 7, 4660, <<>>),
      Ev("SYSEX", 384, 0, 0, 0, << 240, 126, 247 >>),
      Ev("SYSEX", 384, 0, 0, 0, <<>>),
      Ev("SENSING", 1, 0, 0, 0, <<>>),
      [Ev("NOTEON", 1, 0, 60, 100, <<>>) EXCEPT !.dest_port = 1],
      [Ev("NOTEON", 1, 0, 60, 100, <<>>) EXCEPT !.queue_ok = FALSE] }

\* a system exclusive message of 4084 bytes: with its delta time, status and
\* length it fills a buffer exactly when the track is empty before it
LongSysEx == << 240 >> \o [k \in 1..4082 |-> k % 128] \o << 247 >>

LongEvents ==
    { Ev("SYSEX", 384, 0, 0, 0, LongSysEx),
      Ev("NOTEON", 384, 0, 60, 100, <<>>),
      Ev("SYSEX", 500, 0, 0, 0, << 240, 126, 247 >>) }

\* the queue's tick time when the recording ends
FinalTicks == { 500, 1000 }

(***************************************************************************)
(* main                                                                    *)
(***************************************************************************)
Init ==
    /\ pc = "record_tempo"
    /\ opt \in Options
    /\ track = EmptyTrack
    /\ t_start = 0
    /\ file = NewFile
    /\ size_offset = 0
    /\ stop = 0
    /\ no_events = 0
    /\ extra_size = 0
    /\ exit_status = -1
    /\ evlog = <<>>
    /\ oplog = <<>>
    /\ vlq_in = 0
    /\ end_tick = 0

\* lines 704-724
TempoMeta(t, o) ==
    LET usecs_per_quarter == 60000000 \div o.beats
        t1 == add_byte(add_byte(var_value(t, 0), 255), 81)
        t2 == add_byte(add_byte(add_byte(var_value(t1, 3),
                    usecs_per_quarter \div 65536),
                    usecs_per_quarter \div 256),
                    usecs_per_quarter)
        t3 == add_byte(add_byte(var_value(t2, 0), 255), 88)
    IN  add_byte(add_byte(add_byte(add_byte(var_value(t3, 4),
                    o.ts_num), o.ts_dd), 24), 8)

RecordTempo ==
    /\ pc = "record_tempo"
    /\ track' = IF opt.smpte_timing THEN track ELSE TempoMeta(track, opt)
    /\ pc' = "fopen"
    /\ UNCHANGED << opt, t_start, file, size_offset, stop, no_events,
                    extra_size, exit_status, evlog, oplog, vlq_in, end_tick >>

\* lines 726-728
OpenFile ==
    /\ pc = "fopen"
    /\ \/ /\ file' = NewFile
          /\ pc' = "write_header"
          /\ UNCHANGED exit_status
       \/ /\ pc' = "done"
          /\ exit_status' = 1
          /\ UNCHANGED file
    /\ UNCHANGED << opt, track, t_start, size_offset, stop, no_events,
                    extra_size, evlog, oplog, vlq_in, end_tick >>

\* lines 737-740
WriteHeader ==
    /\ pc = "write_header"
    /\ LET r == write_header(file, track, opt)
       IN  /\ file' = r.file
           /\ size_offset' = r.size_offset
    /\ oplog' = Append(oplog, "write_header")
    /\ pc' = "loop_top"
    /\ UNCHANGED << opt, track, t_start, stop, no_events, extra_size,
                    exit_status, evlog, vlq_in, end_tick >>

InLoop == pc \in { "loop_top", "polling", "timed_out", "input", "check_stop" }

\* lines 596-599; a signal that arrives during poll makes it return -1 (line 750)
Signal ==
    /\ InLoop
    /\ stop = 0 \/ pc = "polling"
    /\ stop' = 1
    /\ pc' = IF pc = "polling" THEN "flush_buffer" ELSE pc
    /\ UNCHANGED << opt, track, t_start, file, size_offset, no_events,
                    extra_size, exit_status, evlog, oplog, vlq_in, end_tick >>

\* lines 745-746: poll is entered
EnterPoll ==
    /\ pc = "loop_top"
    /\ pc' = "polling"
    /\ UNCHANGED << opt, track, t_start, file, size_offset, stop, no_events,
                    extra_size, exit_status, evlog, oplog, vlq_in, end_tick >>

\* lines 746-747: poll returns 0 after the time given with -T
PollTimeout ==
    /\ pc = "polling"
    /\ opt.timeout # 0
    /\ pc' = "timed_out"
    /\ UNCHANGED << opt, track, t_start, file, size_offset, stop, no_events,
                    extra_size, exit_status, evlog, oplog, vlq_in, end_tick >>

\* the test after a timeout that leaves the loop whatever no_events is
AfterTimeout_EndsAlways ==
    /\ pc = "timed_out"
    /\ pc' = "flush_buffer"
    /\ UNCHANGED << opt, track, t_start, file, size_offset, stop, no_events,
                    extra_size, exit_status, evlog, oplog, vlq_in, end_tick >>

\* lines 748-749: the test of no_events after a timeout
AfterTimeout ==
    /\ pc = "timed_out"
    /\ pc' = IF no_events > 0 THEN "flush_buffer" ELSE "input"
    /\ UNCHANGED << opt, track, t_start, file, size_offset, stop, no_events,
                    extra_size, exit_status, evlog, oplog, vlq_in, end_tick >>

\* poll returns a positive number
PollReady ==
    /\ pc = "polling"
    /\ no_events < MaxEvents
    /\ pc' = "input"
    /\ UNCHANGED << opt, track, t_start, file, size_offset, stop, no_events,
                    extra_size, exit_status, evlog, oplog, vlq_in, end_tick >>

\* lines 753-762: snd_seq_event_input yields an event of the pool
RecvEvent(pool) ==
    /\ pc = "input"
    /\ no_events < MaxEvents
    /\ \E ev \in pool :
         LET r == record_event(track, t_start, ev)
         IN  /\ track' = r.track
             /\ t_start' = r.t_start
             /\ evlog' = Append(evlog, [ev |-> ev, from |-> track.size,
                                        to |-> r.track.size,
                                        origin |-> r.t_start])
    /\ no_events' = no_events + 1
    /\ pc' = "input"
    /\ UNCHANGED << opt, file, size_offset, stop, extra_size, exit_status,
                    oplog, vlq_in, end_tick >>

\* lines 756-757, 762: no further event to read
InputDone ==
    /\ pc = "input"
    /\ pc' = "check_stop"
    /\ UNCHANGED << opt, track, t_start, file, size_offset, stop, no_events,
                    extra_size, exit_status, evlog, oplog, vlq_in, end_tick >>

\* lines 763-764
CheckStop ==
    /\ pc = "check_stop"
    /\ pc' = IF stop # 0 THEN "flush_buffer" ELSE "loop_top"
    /\ UNCHANGED << opt, track, t_start, file, size_offset, stop, no_events,
                    extra_size, exit_status, evlog, oplog, vlq_in, end_tick >>

\* line 767
FlushBuffer ==
    /\ pc = "flush_buffer"
    /\ file' = flush_buffer(file, track)
    /\ oplog' = Append(oplog, "flush_buffer")
    /\ pc' = "write_track_end"
    /\ UNCHANGED << opt, track, t_start, size_offset, stop, no_events,
                    extra_size, exit_status, evlog, vlq_in, end_tick >>

\* line 768
WriteTrackEnd ==
    /\ pc = "write_track_end"
    /\ \E tick \in FinalTicks :
         LET r == write_track_end(file, track, tick)
         IN  /\ file' = r.file
             /\ extra_size' = r.extra_size
             /\ end_tick' = tick
    /\ oplog' = Append(oplog, "write_track_end")
    /\ pc' = "update_length"
    /\ UNCHANGED << opt, track, t_start, size_offset, stop, no_events,
                    exit_status, evlog, vlq_in >>

\* line 769
UpdateLength ==
    /\ pc = "update_length"
    /\ LET r == update_length(file, track, size_offset, extra_size)
       IN  /\ file' = r.file
           /\ track' = r.track
    /\ oplog' = Append(oplog, "update_length")
    /\ pc' = "fclose"
    /\ UNCHANGED << opt, t_start, size_offset, stop, no_events, extra_size,
                    exit_status, evlog, vlq_in, end_tick >>

\* lines 771-773
Close ==
    /\ pc = "fclose"
    /\ pc' = "done"
    /\ exit_status' = 0
    /\ UNCHANGED << opt, track, t_start, file, size_offset, stop, no_events,
                    extra_size, evlog, oplog, vlq_in, end_tick >>

Next ==
    \/ RecordTempo
    \/ OpenFile
    \/ WriteHeader
    \/ Signal
    \/ EnterPoll
    \/ PollTimeout
    \/ AfterTimeout
    \/ PollReady
    \/ RecvEvent(Events)
    \/ InputDone
    \/ CheckStop
    \/ FlushBuffer
    \/ WriteTrackEnd
    \/ UpdateLength
    \/ Close

Spec == Init /\ [][Next]_vars

\* the same program, reading long system exclusive messages
NextLong ==
    \/ RecordTempo
    \/ OpenFile
    \/ WriteHeader
    \/ Signal
    \/ EnterPoll
    \/ PollTimeout
    \/ AfterTimeout
    \/ PollReady
    \/ RecvEvent(LongEvents)
    \/ InputDone
    \/ CheckStop
    \/ FlushBuffer
    \/ WriteTrackEnd
    \/ UpdateLength
    \/ Close

SpecLong == Init /\ [][NextLong]_vars

(***************************************************************************)
(* The same program on an output device that may stop accepting data (a    *)
(* full disk, a removed medium) at any time while the file is open.        *)
(***************************************************************************)
FewEvents ==
    { Ev("NOTEON", 384, 0, 60, 100, <<>>),
      Ev("SYSEX", 500, 0, 0, 0, << 240, 126, 247 >>) }

OutputFails ==
    /\ pc \in { "write_header", "loop_top", "polling", "flush_buffer",
                "write_track_end", "update_length" }
    /\ file.ok
    /\ file' = [file EXCEPT !.ok = FALSE]
    /\ UNCHANGED << pc, opt, track, t_start, size_offset, stop, no_events,
                    extra_size, exit_status, evlog, oplog, vlq_in, end_tick >>

NextIO ==
    \/ RecordTempo
    \/ OpenFile
    \/ WriteHeader
    \/ Signal
    \/ EnterPoll
    \/ PollTimeout
    \/ AfterTimeout
    \/ PollReady
    \/ RecvEvent(FewEvents)
    \/ InputDone
    \/ CheckStop
    \/ FlushBuffer
    \/ WriteTrackEnd
    \/ UpdateLength
    \/ Close
    \/ OutputFails

SpecIO == Init /\ [][NextIO]_vars

(***************************************************************************)
(* The program with its scheduling: main is one thread, so wherever main   *)
(* is not blocked it takes its next step in the end, and a poll with a     *)
(* time limit returns when the time has passed.  Only a poll without time  *)
(* limit blocks.  Signals and events come from outside the program and     *)
(* need not come at all.                                                   *)
(***************************************************************************)
MainPositions ==
    { "record_tempo", "fopen", "write_header", "loop_top", "polling",
      "timed_out", "input", "check_stop", "flush_buffer", "write_track_end",
      "update_length", "fclose", "done" }

\* line 746: poll(pfds, npfds, -1) is the one place where main waits
MainCanStep ==
    /\ pc \in MainPositions \ { "done" }
    /\ pc = "polling" => opt.timeout # 0

\* main moves on from a position where it is not blocked
MainStep ==
    /\ MainCanStep
    /\ pc' \in MainPositions

NextLive ==
    \/ RecordTempo
    \/ OpenFile
    \/ WriteHeader
    \/ Signal
    \/ EnterPoll
    \/ PollTimeout
    \/ AfterTimeout
    \/ PollReady
    \/ RecvEvent(FewEvents)
    \/ InputDone
    \/ CheckStop
    \/ FlushBuffer
    \/ WriteTrackEnd
    \/ UpdateLength
    \/ Close

SpecLive == Init /\ [][NextLive]_vars /\ WF_pc(MainStep)

(***************************************************************************)
(* The same program, reading the events that are written as several        *)
(* messages or with a payload: 14-bit controllers on both sides of         *)
(* controller number 0x20, registered and non-registered parameters, and   *)
(* system exclusive messages that start with F0 or not, of 0, 2 and 130    *)
(* bytes.                                                                  *)
(***************************************************************************)
MidSysEx ==
    << 240 >> \o [k \in 1..128 |-> k % 128] \o << 247 >>

MessageEvents ==
    { Ev("CONTROLLER", 384, 0, 7, 100, <<>>),
      Ev("CONTROL14", 384, 0, 31, 4660, <<>>),
      Ev("CONTROL14", 500, 0, 32, 16383, <<>>),
      Ev("NONREGPARAM", 384, 0, 300, 4660, <<>>),
      Ev("REGPARAM", 500, 1, 0, 8192, <<>>),
      Ev("SYSEX", 500, 0, 0, 0, << 126, 247 >>),
      Ev("SYSEX", 500, 0, 0, 0, MidSysEx),
      Ev("SYSEX", 500, 0, 0, 0, <<>>) }

NextMsg ==
    \/ RecordTempo
    \/ OpenFile
    \/ WriteHeader
    \/ Signal
    \/ EnterPoll
    \/ PollTimeout
    \/ AfterTimeout
    \/ PollReady
    \/ RecvEvent(MessageEvents)
    \/ InputDone
    \/ CheckStop
    \/ FlushBuffer
    \/ WriteTrackEnd
    \/ UpdateLength
    \/ Close

SpecMsg == Init /\ [][NextMsg]_vars

(***************************************************************************)
(* The start of main up to write_header for the command lines main         *)
(* accepts: -b with a tempo of 4 to 6000, or -f with 24, 25, 29 or 30      *)
(* frames, and -t with 1 to 0x7fff ticks; 0 stands for an option that is   *)
(* not given.  Any other value ends the program in the option switch.      *)
(***************************************************************************)
CommandLines ==
    { c \in [b : { 0, 4, 6000 }, f : { 0, 24, 25, 29, 30 },
             t : { 0, 1, 255, 256, 32767 }] : c.b = 0 \/ c.f = 0 }

\* lines 57-60, 649-691
HeaderOptions ==
    { Defaults([smpte_timing |-> c.f # 0,
                beats |-> IF c.b # 0 THEN c.b ELSE 120,
                frames |-> c.f, ticks |-> c.t, timeout |-> 0,
                ts_num |-> 4, ts_dd |-> Log2(4)]) : c \in CommandLines }

InitHdr ==
    /\ pc = "record_tempo"
    /\ opt \in HeaderOptions
    /\ track = EmptyTrack
    /\ t_start = 0
    /\ file = NewFile
    /\ size_offset = 0
    /\ stop = 0
    /\ no_events = 0
    /\ extra_size = 0
    /\ exit_status = -1
    /\ evlog = <<>>
    /\ oplog = <<>>
    /\ vlq_in = 0
    /\ end_tick = 0

NextHdr ==
    \/ RecordTempo
    \/ OpenFile
    \/ WriteHeader

SpecHdr == InitHdr /\ [][NextHdr]_vars

(***************************************************************************)
(* The two writers of variable-length quantities on their own: one         *)
(* quantity is written to an empty track and to an empty file.             *)
(***************************************************************************)
VlqInputs ==
    UNION { { 2^k - 1, 2^k, 2^k + 1 } : k \in 0..27 } \cup { 2^28 - 2, 2^28 - 1 }

InitVLQ ==
    /\ pc = "vlq"
    /\ opt \in Options
    /\ track = EmptyTrack
    /\ t_start = 0
    /\ file = NewFile
    /\ size_offset = 0
    /\ stop = 0
    /\ no_events = 0
    /\ extra_size = 0
    /\ exit_status = -1
    /\ evlog = <<>>
    /\ oplog = <<>>
    /\ vlq_in \in VlqInputs
    /\ end_tick = 0

VlqToTrack ==
    /\ pc = "vlq"
    /\ track' = var_value(track, vlq_in)
    /\ pc' = "vlq_file"
    /\ UNCHANGED << opt, t_start, file, size_offset, stop, no_events,
                    extra_size, exit_status, evlog, oplog, vlq_in, end_tick >>

VlqToFile ==
    /\ pc = "vlq_file"
    /\ LET r == var_value_direct(file, vlq_in)
       IN  /\ file' = r.file
           /\ extra_size' = r.n
    /\ pc' = "vlq_done"
    /\ UNCHANGED << opt, track, t_start, size_offset, stop, no_events,
                    exit_status, evlog, oplog, vlq_in, end_tick >>

NextVLQ ==
    \/ VlqToTrack
    \/ VlqToFile

SpecVLQ == InitVLQ /\ [][NextVLQ]_vars

(***************************************************************************)
(* Reading the output back: what the properties below are stated in.       *)
(***************************************************************************)
\* the bytes held in the buffers of a track, in order
RECURSIVE Flatten(_, _)
Flatten(bufs, k) ==
    IF k > Len(bufs) THEN <<>> ELSE bufs[k] \o Flatten(bufs, k + 1)

Body(t) == Flatten(t.bufs, 1)

\* the number of bytes held in the buffers of a track
RECURSIVE CountFrom(_, _)
CountFrom(bufs, k) ==
    IF k > Len(bufs) THEN 0 ELSE Len(bufs[k]) + CountFrom(bufs, k + 1)

SinkBytes(t) == CountFrom(t.bufs, 1)

\* byte i of a sequence, -1 outside it
At(bytes, i) == IF i \in 1..Len(bytes) THEN bytes[i] ELSE -1

\* reads a variable-length quantity of at most 5 bytes at index i:
\* its value and the index after it (value -1 when it does not end)
RECURSIVE ReadVlq(_, _, _, _)
ReadVlq(bytes, i, acc, n) ==
    IF At(bytes, i) < 0 \/ n >= 5 THEN [value |-> -1, next |-> i]
    ELSE IF At(bytes, i) >= 128
    THEN ReadVlq(bytes, i + 1, acc * 128 + (bytes[i] - 128), n + 1)
    ELSE [value |-> acc * 128 + bytes[i], next |-> i + 1]

\* reads the channel messages of a segment, shape[k] the number of data
\* bytes of message k: delta time, status byte (0 when it is left out), data
RECURSIVE ReadMessages(_, _, _, _)
ReadMessages(seg, i, shape, k) ==
    IF k > Len(shape) THEN <<>>
    ELSE LET d == ReadVlq(seg, i, 0, 0)
             explicit == At(seg, d.next) >= 128
             first == IF explicit THEN d.next + 1 ELSE d.next
         IN  << [delta |-> d.value,
                 status |-> IF explicit THEN seg[d.next] ELSE 0,
                 data |-> [n \in 1..shape[k] |-> At(seg, first + n - 1)],
                 next |-> first + shape[k]] >>
             \o ReadMessages(seg, first + shape[k], shape, k + 1)

\* reads a system exclusive message: delta time, status, length, payload
ReadSysEx(seg) ==
    LET d == ReadVlq(seg, 1, 0, 0)
        l == ReadVlq(seg, d.next + 1, 0, 0)
    IN  << [delta |-> d.value, status |-> At(seg, d.next),
            data |-> [n \in 1..(Len(seg) - l.next + 1) |-> At(seg, l.next + n - 1)],
            length |-> l.value, next |-> Len(seg) + 1] >>

VoiceTypes ==
    { "NOTEON", "NOTEOFF", "KEYPRESS", "CONTROLLER", "PGMCHANGE", "CHANPRESS",
      "PITCHBEND", "CONTROL14", "NONREGPARAM", "REGPARAM" }

\* the event passes the filters of record_event
Accepted(ev) == ev.queue_ok /\ ev.dest_port = 0

IsVoice(ev) == Accepted(ev) /\ ev.type \in VoiceTypes

IsSysEx(ev) == Accepted(ev) /\ ev.type = "SYSEX" /\ Len(ev.ext) > 0

\* the event is translated: it is written to the track
IsTranslated(ev) == IsVoice(ev) \/ IsSysEx(ev)

\* the data bytes of each message a channel event is written as
ShapeOf(ev) ==
    CASE ev.type \in { "PGMCHANGE", "CHANPRESS" } -> << 1 >>
      [] ev.type = "CONTROL14" ->
            IF (ev.param % 128) < 32 THEN << 2, 2 >> ELSE << 2 >>
      [] ev.type \in { "NONREGPARAM", "REGPARAM" } -> << 2, 2, 2, 2 >>
      [] OTHER -> << 2 >>

\* the status byte a translated event stands for (section 4.4 of the spec)
StatusByte(ev) ==
    CASE ev.type = "NOTEOFF" -> 128 + (ev.channel % 16)
      [] ev.type = "NOTEON" -> 144 + (ev.channel % 16)
      [] ev.type = "KEYPRESS" -> 160 + (ev.channel % 16)
      [] ev.type \in { "CONTROLLER", "CONTROL14", "NONREGPARAM", "REGPARAM" } ->
            176 + (ev.channel % 16)
      [] ev.type = "PGMCHANGE" -> 192 + (ev.channel % 16)
      [] ev.type = "CHANPRESS" -> 208 + (ev.channel % 16)
      [] ev.type = "PITCHBEND" -> 224 + (ev.channel % 16)
      [] ev.type = "SYSEX" -> IF At(ev.ext, 1) = 240 THEN 240 ELSE 247
      [] OTHER -> 0

\* the bytes entry e of the event log wrote to track t
SegmentOf(t, e) == SubSeq(Body(t), e.from + 1, e.to)

\* the messages entry e of the event log wrote to track t
MessagesOf(t, e) ==
    IF IsSysEx(e.ev) THEN ReadSysEx(SegmentOf(t, e))
    ELSE ReadMessages(SegmentOf(t, e), 1, ShapeOf(e.ev), 1)

\* the output steps taken
Done(step) == \E i \in 1..Len(oplog) : oplog[i] = step

\* the 32-bit big-endian number at offset (counted from 0) of the file
FieldAt(f, offset) ==
    ((At(f.bytes, offset + 1) * 256 + At(f.bytes, offset + 2)) * 256
        + At(f.bytes, offset + 3)) * 256 + At(f.bytes, offset + 4)

SetMax(S) == CHOOSE x \in S : \A y \in S : y <= x

SetMin(S) == CHOOSE x \in S : \A y \in S : x <= y

(***************************************************************************)
(* Properties.                                                             *)
(***************************************************************************)

\* C1: once update_length has run, the big-endian number stored at
\* size_offset is the number of bytes in the track's buffers plus the
\* extra_size of write_track_end, and it is the number of bytes the file
\* holds after the length field.
C1_LengthFieldCountsTrackBytes ==
    Done("update_length") =>
        /\ FieldAt(file, size_offset) = SinkBytes(track) + extra_size
        /\ FieldAt(file, size_offset) = Len(file.bytes) - (size_offset + 4)

\* a patched file whose track spans more than one buffer
C1_Witness ==
    /\ Done("update_length")
    /\ Len(track.bufs) >= 2
    /\ Len(evlog) >= 2
    /\ FieldAt(file, size_offset) > BUFFER_SIZE

\* C2: when every event read is translated and ticks do not decrease, the
\* first event is written with delta time 0 and every later one with its
\* tick minus the tick of the event before it; NoteOn at tick 0 then NoteOff
\* at tick 384 are written as 00 90 3C 64 83 00 80 3C 00.
C2_DeltaIsTickDifference ==
    (/\ \A k \in 1..Len(evlog) : IsTranslated(evlog[k].ev)
     /\ \A k \in 2..Len(evlog) : evlog[k - 1].ev.tick <= evlog[k].ev.tick)
    => /\ \A k \in 1..Len(evlog) :
            MessagesOf(track, evlog[k])[1].delta =
                IF k = 1 THEN 0 ELSE evlog[k].ev.tick - evlog[k - 1].ev.tick
       /\ (/\ Len(evlog) = 2
           /\ evlog[1].ev = Ev("NOTEON", 0, 0, 60, 100, <<>>)
           /\ evlog[2].ev = Ev("NOTEOFF", 384, 0, 60, 0, <<>>))
          => SubSeq(Body(track), evlog[1].from + 1, evlog[2].to)
                = << 0, 144, 60, 100, 131, 0, 128, 60, 0 >>

\* C3: a channel event is written without its status byte exactly when the
\* message written just before it had the same status byte; after a
\* non-empty system exclusive message the status byte is always written.
C3_RunningStatus ==
    \A k \in 1..Len(evlog) :
        IsVoice(evlog[k].ev) =>
            LET prevs == { j \in 1..(k - 1) : IsTranslated(evlog[j].ev) }
                repeated == /\ prevs # {}
                            /\ StatusByte(evlog[SetMax(prevs)].ev)
                                  = StatusByte(evlog[k].ev)
            IN  MessagesOf(track, evlog[k])[1].status =
                    IF repeated THEN 0 ELSE StatusByte(evlog[k].ev)

\* a system exclusive message between two channel events of one status
C3_Witness ==
    /\ Len(evlog) = 3
    /\ IsVoice(evlog[1].ev)
    /\ IsSysEx(evlog[2].ev)
    /\ IsVoice(evlog[3].ev)
    /\ StatusByte(evlog[1].ev) = StatusByte(evlog[3].ev)
    /\ MessagesOf(track, evlog[3])[1].status = StatusByte(evlog[3].ev)

\* C4: whatever the tick of an event, before the last tick or before the
\* origin, the delta time written for it is max(0, tick - last_tick) in
\* 32-bit arithmetic, never negative, any further delta time of the same
\* event is 0, and last_tick becomes the tick relative to the origin.
C4_Step ==
    Len(evlog') = Len(evlog) + 1 =>
        LET e == evlog'[Len(evlog')]
            msgs == MessagesOf(track', e)
            rel == Sub32(e.ev.tick, t_start')
            d == Sub32(rel, track.last_tick)
        IN  IsTranslated(e.ev) =>
                /\ msgs[1].delta = IF d < 0 THEN 0 ELSE d
                /\ \A m \in 1..Len(msgs) : msgs[m].delta >= 0
                /\ \A m \in 2..Len(msgs) : msgs[m].delta = 0
                /\ track'.last_tick = rel

C4_DeltaNeverNegative == [][C4_Step]_vars

\* an event with a tick before the tick of the event before it and before
\* the origin, written with delta time 0
C4_Witness ==
    /\ Len(evlog) >= 2
    /\ IsTranslated(evlog[1].ev)
    /\ IsTranslated(evlog[2].ev)
    /\ evlog[2].ev.tick < evlog[1].ev.tick
    /\ evlog[2].ev.tick < evlog[2].origin
    /\ MessagesOf(track, evlog[2])[1].delta = 0
    /\ pc = "input"

\* the canonical length of a variable-length quantity
VlqLength(v) ==
    IF v < 128 THEN 1 ELSE IF v < 16384 THEN 2 ELSE IF v < 2097152 THEN 3 ELSE 4

\* bytes is the canonical variable-length quantity of v
IsCanonicalVlq(bytes, v) ==
    /\ Len(bytes) = VlqLength(v)
    /\ \A i \in 1..(Len(bytes) - 1) : bytes[i] \in 128..255
    /\ bytes[Len(bytes)] \in 0..127
    /\ Len(bytes) > 1 => bytes[1] # 128
    /\ ReadVlq(bytes, 1, 0, 0) = [value |-> v, next |-> Len(bytes) + 1]

\* C5: for a quantity below 2^28 both writers emit its canonical
\* variable-length form: 1 to 4 bytes, as few as possible, all but the last
\* with the high bit set, reading back as the quantity; the boundary values
\* take 1, 1, 2, 2, 3, 3, 4 and 4 bytes.
C5_VlqCanonical ==
    /\ pc \in { "vlq_file", "vlq_done" } =>
          /\ IsCanonicalVlq(Body(track), vlq_in)
          /\ track.size = VlqLength(vlq_in)
    /\ pc = "vlq_done" =>
          /\ IsCanonicalVlq(file.bytes, vlq_in)
          /\ extra_size = VlqLength(vlq_in)
          /\ vlq_in = 0 => file.bytes = << 0 >>
          /\ vlq_in = 127 => file.bytes = << 127 >>
          /\ vlq_in = 128 => file.bytes = << 129, 0 >>
          /\ vlq_in = 16383 => file.bytes = << 255, 127 >>
          /\ vlq_in = 16384 => file.bytes = << 129, 128, 0 >>
          /\ vlq_in = 2097151 => file.bytes = << 255, 255, 127 >>
          /\ vlq_in = 2097152 => file.bytes = << 129, 128, 128, 0 >>
          /\ vlq_in = 268435455 => file.bytes = << 255, 255, 255, 127 >>

\* the smallest quantity of four bytes, written by both writers
C5_Witness ==
    /\ pc = "vlq_done"
    /\ vlq_in = 2097152
    /\ Body(track) = << 129, 128, 128, 0 >>
    /\ file.bytes = << 129, 128, 128, 0 >>

\* C6: a run that closes the file has taken the output steps write_header,
\* flush_buffer, write_track_end, update_length once each in that order,
\* with the write position back at the end of the file, which ends with
\* FF 2F 00; events are translated only after write_header and before
\* flush_buffer, and translating one leaves the file as it is.
C6_AtClose ==
    (pc = "done" /\ exit_status = 0) =>
        /\ oplog = << "write_header", "flush_buffer", "write_track_end",
                      "update_length" >>
        /\ file.pos = Len(file.bytes)
        /\ Len(file.bytes) >= 3
        /\ SubSeq(file.bytes, Len(file.bytes) - 2, Len(file.bytes))
              = << 255, 47, 0 >>

C6_EventStep ==
    evlog' # evlog => (oplog = << "write_header" >> /\ file' = file)

C6_OutputOrder == []C6_AtClose /\ [][C6_EventStep]_vars

\* a closed file of a run that recorded events
C6_Witness ==
    /\ pc = "done"
    /\ exit_status = 0
    /\ Len(evlog) >= 2
    /\ \E k \in 1..Len(evlog) : IsTranslated(evlog[k].ev)

\* C7: when a write or a seek on the output file has failed, the process
\* does not end with success.
C7_FailureIsFatal ==
    (pc = "done" /\ exit_status = 0) => ~file.err

\* C8 as claimed: track.size is the number of bytes in the track's buffers
\* in every state.
C8_SizeIsSinkBytes == track.size = SinkBytes(track)

\* C8: track.size is the number of bytes in the track's buffers until
\* update_length runs; update_length adds extra_size to it.
C8_SizeIsSinkBytesUntilPatched ==
    track.size = SinkBytes(track)
                    + (IF Done("update_length") THEN extra_size ELSE 0)

\* a track of more than one buffer, before and not after update_length
C8_Witness ==
    /\ pc = "update_length"
    /\ Len(track.bufs) >= 2
    /\ track.size > BUFFER_SIZE
    /\ extra_size > 0

\* C9 as claimed: write_header leaves four zero bytes at size_offset.
C9_PlaceholderIsZero ==
    oplog = << "write_header" >> =>
        SubSeq(file.bytes, size_offset + 1, size_offset + 4) = << 0, 0, 0, 0 >>

\* C9: write_header remembers offset 18 and writes there the size the track
\* has at that time: 0 with SMPTE timing, 15 (00 00 00 0F) with the tempo
\* and time signature events, which are in the track by then.
C9_PlaceholderIsTrackSize ==
    oplog = << "write_header" >> =>
        /\ size_offset = 18
        /\ Len(file.bytes) = 22
        /\ SubSeq(file.bytes, 19, 22) =
              IF opt.smpte_timing THEN << 0, 0, 0, 0 >> ELSE << 0, 0, 0, 15 >>

\* the header of a recording with tempo and time signature events
C9_Witness ==
    /\ oplog = << "write_header" >>
    /\ ~opt.smpte_timing
    /\ SubSeq(file.bytes, 19, 22) = << 0, 0, 0, 15 >>
    /\ Len(evlog) >= 1

\* C10: the origin is the tick of the first event with a proper timestamp,
\* whatever that tick is, and no later event changes it.
C10_OriginCapturedOnce ==
    \A k \in 1..Len(evlog) :
        LET stamped == { j \in 1..k : evlog[j].ev.queue_ok }
        IN  evlog[k].origin =
                IF stamped = {} THEN 0 ELSE evlog[SetMin(stamped)].ev.tick

\* the track as main has built it when the recording loop starts
StartTrack(o) == IF o.smpte_timing THEN EmptyTrack ELSE TempoMeta(EmptyTrack, o)

\* record_event for evs[k], evs[k + 1], ... in order: the track at the end
RECURSIVE Record(_, _, _, _)
Record(t, ts, evs, k) ==
    IF k > Len(evs) THEN t
    ELSE LET r == record_event(t, ts, evs[k])
         IN  \* the test makes TLC evaluate this event before the next ones
             IF r.track.size >= 0 THEN Record(r.track, r.t_start, evs, k + 1)
                                  ELSE r.track

\* the events of the log from entry k on that pass the filters
RECURSIVE KeptFrom(_, _)
KeptFrom(log, k) ==
    IF k > Len(log) THEN <<>>
    ELSE (IF Accepted(log[k].ev) THEN << log[k].ev >> ELSE <<>>)
         \o KeptFrom(log, k + 1)

\* C11: the bytes in the track are those that the events read so far give
\* when the ones the filters discard (wrong queue or timestamp kind, other
\* destination port) are left out.
C11_DiscardedHaveNoEffect ==
    Len(evlog) >= 1 =>
        Body(track) = Body(Record(StartTrack(opt), 0, KeptFrom(evlog, 1), 1))

\* the bytes write_track_end has written: those after the streamed track
EndBytes ==
    SubSeq(file.bytes, size_offset + 4 + SinkBytes(track) + 1, Len(file.bytes))

\* C12: write_track_end writes, after the streamed track, the
\* variable-length number of ticks from the last event written to the track
\* to the queue's final tick time (0 when both are equal), then FF 2F 00,
\* and returns the number of bytes it wrote.
C12_FinalDeltaIsElapsedTicks ==
    LET translated == { k \in 1..Len(evlog) : IsTranslated(evlog[k].ev) }
        d == ReadVlq(EndBytes, 1, 0, 0)
    IN  (Done("write_track_end") /\ translated # {}) =>
            /\ d.value = end_tick - evlog[SetMax(translated)].ev.tick
            /\ SubSeq(EndBytes, d.next, Len(EndBytes)) = << 255, 47, 0 >>
            /\ extra_size = Len(EndBytes)

\* C13 as claimed: the bytes written after the streamed track are 3 and the
\* patched length is the number of bytes in the track's buffers plus 3.
C13_EpilogueIsThreeBytes ==
    Done("update_length") =>
        /\ Len(EndBytes) = 3
        /\ FieldAt(file, size_offset) = SinkBytes(track) + 3

\* C13: the bytes written after the streamed track are the final delta time,
\* a canonical variable-length quantity of 1 to 4 bytes, and then the 3
\* bytes FF 2F 00; the patched length is the number of bytes in the track's
\* buffers plus the number of all those bytes, whatever the final tick.
C13_EpilogueCountsFinalDelta ==
    Done("update_length") =>
        LET d == ReadVlq(EndBytes, 1, 0, 0)
        IN  /\ d.value >= 0
            /\ d.next - 1 = VlqLength(d.value)
            /\ SubSeq(EndBytes, d.next, Len(EndBytes)) = << 255, 47, 0 >>
            /\ Len(EndBytes) = VlqLength(d.value) + 3
            /\ FieldAt(file, size_offset)
                  = SinkBytes(track) + VlqLength(d.value) + 3

\* a patched file of a recording with events whose final delta time takes
\* two bytes
C13_Witness ==
    /\ Done("update_length")
    /\ \E k \in 1..Len(evlog) : IsTranslated(evlog[k].ev)
    /\ Len(EndBytes) = 5
    /\ FieldAt(file, size_offset) = SinkBytes(track) + 5

\* the status byte of the last message written before entry k of the event
\* log, 0 when no event was written before it
StatusBefore(k) ==
    LET prevs == { j \in 1..(k - 1) : IsTranslated(evlog[j].ev) }
    IN  IF prevs = {} THEN 0 ELSE StatusByte(evlog[SetMax(prevs)].ev)

\* seg is a delta time, then status unless the message before had that
\* status (running status), then exactly the bytes of rest
IsMessageThen(seg, status, before, rest) ==
    LET d == ReadVlq(seg, 1, 0, 0)
        explicit == At(seg, d.next) >= 128
    IN  /\ d.value >= 0
        /\ explicit => seg[d.next] = status
        /\ ~explicit => before = status
        /\ SubSeq(seg, IF explicit THEN d.next + 1 ELSE d.next, Len(seg)) = rest

C15_Step ==
    Len(evlog') = Len(evlog) + 1 =>
        LET ev == evlog'[Len(evlog')].ev
        IN  (ev.type = "SYSEX" /\ Len(ev.ext) = 0) =>
                /\ Body(track') = Body(track)
                /\ track'.size = track.size
                /\ track'.last_tick = track.last_tick
                /\ track'.last_command = track.last_command

C15_EmptySysExIsDropped == [][C15_Step]_vars

\* an empty system exclusive event between two channel events of one
\* status: the second is written under running status
C15_Witness ==
    /\ Len(evlog) = 3
    /\ evlog[1].ev.type = "CONTROLLER"
    /\ evlog[2].ev.type = "SYSEX" /\ Len(evlog[2].ev.ext) = 0
    /\ evlog[2].to = evlog[2].from
    /\ evlog[3].ev.type = "CONTROL14"
    /\ At(SegmentOf(track, evlog[3]), 2) = evlog[3].ev.param
    /\ track.last_command = 176

\* C16: write_header writes, before the length field at offset 18, the 18
\* bytes 'MThd' 00 00 00 06 00 00 00 01 hi lo 'MTrk'.  Without SMPTE timing
\* the division hi*256+lo is the number of ticks, below 0x8000; with SMPTE
\* timing the ticks are at most 255 and the division is
\* (256 - frames)*256 + ticks, 0x8000 or more.
C16_HeaderAndDivision ==
    oplog = << "write_header" >> =>
        LET hi == At(file.bytes, 13)
            lo == At(file.bytes, 14)
            division == hi * 256 + lo
        IN  /\ size_offset = 18
            /\ SubSeq(file.bytes, 1, 18) =
                  << 77, 84, 104, 100, 0, 0, 0, 6, 0, 0, 0, 1, hi, lo,
                     77, 84, 114, 107 >>
            /\ hi \in 0..255 /\ lo \in 0..255
            /\ ~opt.smpte_timing =>
                  /\ division = opt.ticks
                  /\ division < 32768
            /\ opt.smpte_timing =>
                  /\ opt.ticks <= 255
                  /\ division = (256 - opt.frames) * 256 + opt.ticks
                  /\ division >= 32768

\* the header of -f 29 with ticks at the limit of 255: division E3 FF
C16_Witness ==
    /\ oplog = << "write_header" >>
    /\ opt.smpte_timing
    /\ opt.frames = 29
    /\ SubSeq(file.bytes, 13, 14) = << 227, 255 >>

\* the buffers of the track are as few as hold its bytes: all but the last
\* are full, the last is the current one and holds cur_buf_size bytes
C17_Chunks ==
    LET n == SinkBytes(track)
        last == Len(track.bufs)
    IN  /\ last = IF n = 0 THEN 1 ELSE (n + BUFFER_SIZE - 1) \div BUFFER_SIZE
        /\ \A k \in 1..(last - 1) : Len(track.bufs[k]) = BUFFER_SIZE
        /\ track.cur_buf = last
        /\ track.cur_buf_size = Len(track.bufs[last])
        /\ track.cur_buf_size <= BUFFER_SIZE

\* right after flush_buffer the file holds, after the 22 bytes of
\* write_header, the bytes of the track in their order, track.size of them
C17_Streamed ==
    oplog = << "write_header", "flush_buffer" >> =>
        /\ Len(file.bytes) = 22 + track.size
        /\ SubSeq(file.bytes, 23, Len(file.bytes)) = Body(track)

\* reading an event only adds bytes after those the track holds
C17_AppendStep ==
    evlog' # evlog =>
        /\ Len(Body(track')) >= Len(Body(track))
        /\ SubSeq(Body(track'), 1, Len(Body(track))) = Body(track)

C17_AtEveryState == C17_Chunks /\ C17_Streamed

\* C17: whatever the number of bytes added to the track (none, less than a
\* buffer, exactly one buffer, several buffers), bytes are only added at the
\* end, a buffer is added only when the current one is full, and
\* flush_buffer writes exactly the track's bytes in the order they were
\* added, track.size of them, the last buffer only as far as it is used.
C17_StreamIsAppendedBytes == []C17_AtEveryState /\ [][C17_AppendStep]_vars

\* a streamed track that fills one buffer exactly, without a second buffer
C17_Witness ==
    /\ oplog = << "write_header", "flush_buffer" >>
    /\ track.size = BUFFER_SIZE
    /\ Len(track.bufs) = 1
    /\ Len(file.bytes) = 22 + BUFFER_SIZE
    /\ Len(evlog) >= 1

\* C18: a registered or non-registered parameter event is written as four
\* controller messages: parameter number LSB (controller 100 or 98) with
\* bits 0-6 of the number, parameter number MSB (101 or 99) with bits 7-13,
\* data entry MSB (6) with bits 7-13 of the value, data entry LSB (38) with
\* bits 0-6; each has its own delta time, 0 for the last three, and the
\* status byte B0|channel is written at most once, before the first.
C18_ParameterMessages ==
    \A k \in 1..Len(evlog) :
        LET ev == evlog[k].ev
            reg == ev.type = "REGPARAM"
        IN  (Accepted(ev) /\ ev.type \in { "REGPARAM", "NONREGPARAM" }) =>
                IsMessageThen(SegmentOf(track, evlog[k]), 176 + ev.channel,
                    StatusBefore(k),
                    << IF reg THEN 100 ELSE 98, ev.param % 128,
                       0, IF reg THEN 101 ELSE 99, (ev.param \div 128) % 128,
                       0, 6, (ev.value \div 128) % 128,
                       0, 38, ev.value % 128 >>)

\* a non-registered parameter written under running status (12 bytes) and a
\* registered parameter on another channel written with its status byte (13)
C18_Witness ==
    /\ Len(evlog) = 3
    /\ evlog[1].ev.type = "CONTROLLER"
    /\ evlog[2].ev.type = "NONREGPARAM"
    /\ evlog[2].to - evlog[2].from = 12
    /\ evlog[3].ev.type = "REGPARAM"
    /\ evlog[3].ev.channel # evlog[2].ev.channel
    /\ evlog[3].to - evlog[3].from = 13

\* C19: a system exclusive event with a payload of L > 0 bytes is written as
\* a delta time, the status byte F0 when the payload starts with F0 and F7
\* otherwise (always written), the variable-length quantity L, and the L
\* bytes of the payload as they are.
C19_SysExFraming ==
    \A k \in 1..Len(evlog) :
        LET ev == evlog[k].ev
            seg == SegmentOf(track, evlog[k])
            d == ReadVlq(seg, 1, 0, 0)
            l == ReadVlq(seg, d.next + 1, 0, 0)
        IN  (Accepted(ev) /\ ev.type = "SYSEX" /\ Len(ev.ext) > 0) =>
                /\ d.value >= 0
                /\ At(seg, d.next) = IF ev.ext[1] = 240 THEN 240 ELSE 247
                /\ l.value = Len(ev.ext)
                /\ l.next - (d.next + 1) = VlqLength(Len(ev.ext))
                /\ Len(seg) - l.next + 1 = l.value
                /\ SubSeq(seg, l.next, Len(seg)) = ev.ext

\* two system exclusive events of one status in a row, the second written
\* with its status byte, then one of 130 bytes with a length of two bytes
C19_Witness ==
    /\ Len(evlog) = 3
    /\ evlog[1].ev.type = "SYSEX" /\ evlog[1].ev.ext = << 126, 247 >>
    /\ evlog[2].ev = evlog[1].ev
    /\ SegmentOf(track, evlog[2]) = << 0, 247, 2, 126, 247 >>
    /\ evlog[3].ev.type = "SYSEX" /\ Len(evlog[3].ev.ext) = 130
    /\ SubSeq(SegmentOf(track, evlog[3]), 1, 4) = << 0, 240, 129, 2 >>

\* the status bytes in the track in the order they were written, with the
\* status each message stands for: those of main's two meta events, then,
\* from entry k of the event log on, one entry per message of an event
\* (status 0 for a message written without a status byte)
RECURSIVE StatusTrailFrom(_)
StatusTrailFrom(k) ==
    IF k > Len(evlog) THEN <<>>
    ELSE (IF IsTranslated(evlog[k].ev)
          THEN LET msgs == MessagesOf(track, evlog[k])
               IN  [m \in 1..Len(msgs) |->
                       [status |-> msgs[m].status,
                        need |-> StatusByte(evlog[k].ev)]]
          ELSE <<>>)
         \o StatusTrailFrom(k + 1)

StatusTrail ==
    (IF Len(evlog) >= 1 /\ evlog[1].from > 0
     THEN << [status |-> At(Body(track), 2), need |-> 255],
             [status |-> At(Body(track), 9), need |-> 255] >>
     ELSE <<>>)
    \o StatusTrailFrom(1)

\* C20: every channel message written without a status byte (running status
\* in command, the second message of a 14-bit controller, messages 2 to 4
\* of a parameter event) has before it in the track, as the nearest status
\* byte, the status it stands for, which is below F0: no meta event or
\* system exclusive message lies in between.
C20_RunningStatusIsValid ==
    LET trail == StatusTrail
    IN  \A i \in 1..Len(trail) :
            trail[i].status = 0 =>
                LET prevs == { j \in 1..(i - 1) : trail[j].status # 0 }
                IN  /\ prevs # {}
                    /\ trail[SetMax(prevs)].status = trail[i].need
                    /\ trail[SetMax(prevs)].status < 240

\* a system exclusive message between two events of one status, both with
\* messages that rely on running status, after the meta events of main
C20_Witness ==
    /\ Len(evlog) = 3
    /\ ~opt.smpte_timing
    /\ evlog[1].ev.type = "NONREGPARAM"
    /\ IsSysEx(evlog[2].ev)
    /\ evlog[3].ev.type = "CONTROL14" /\ evlog[3].ev.param = 31
    /\ evlog[3].ev.channel = evlog[1].ev.channel
    /\ Len(StatusTrail) = 9
    /\ StatusTrail[8].status = 176
    /\ StatusTrail[9].status = 0

\* C21: once a signal has set stop, wherever main is in the recording loop
\* and with or without a time limit for poll, the loop is left and the file
\* is streamed, ended and patched, also when no further event arrives.
C21_StopLeadsToFinalization ==
    (stop = 1) ~> (pc = "done" /\ Done("update_length"))

\* the recording loop has been left and the file is being, or has been, finished
C22_LoopLeft ==
    \/ pc \in { "flush_buffer", "write_track_end", "update_length", "fclose" }
    \/ pc = "done" /\ exit_status = 0

\* the step main takes after a poll that timed out
C22_TimeoutTest ==
    pc = "timed_out" /\ pc' # pc
        => pc' = IF no_events > 0 THEN "flush_buffer" ELSE "input"

\* without a signal the loop is left only by a timeout after an event
C22_EndNeedsEvent ==
    C22_LoopLeft /\ stop = 0 => opt.timeout # 0 /\ no_events > 0

C22_Witness ==
    /\ pc = "done"
    /\ Done("update_length")
    /\ stop = 0
    /\ opt.timeout # 0
    /\ no_events = 1

\* C22: with a time limit given, a poll that times out ends the recording
\* only if an event has been received: while no_events is 0 main goes on to
\* the input loop after every timeout and, without a signal, never leaves the
\* recording loop; once an event has been received the first poll that times
\* out leaves the loop and the file is streamed, ended and patched.
C22_TimeoutEndsAfterFirstEvent ==
    /\ [][C22_TimeoutTest]_vars
    /\ [](C22_EndNeedsEvent)
    /\ (pc = "timed_out" /\ no_events > 0) ~> (pc = "done" /\ Done("update_length"))

====
